---- MODULE Spec2Model ----
(***************************************************************************)
(* Model of the volunteer-certificate portal: the App component (address   *)
(* lookup, issuance gate, handleGenerate), generateImpactMessage, and the  *)
(* certificate renderer generateCertificatePDF with its font provisioning  *)
(* and transliteration helpers.                                            *)
(*                                                                         *)
(* Text is a sequence of UTF-16 code units (naturals), so that the string  *)
(* conversions are computed character by character as the code does.       *)
(***************************************************************************)
EXTENDS Integers, Sequences, FiniteSets, TLC

\* ------------------------------------------------------------------------
\* Bounds of the model
\* ------------------------------------------------------------------------

\* longest text enumerated exhaustively as a renderer input
MaxLen == 2

\* handleGenerate invocations explored per run (also the logical clock range)
MaxAttempts == 3

\* ------------------------------------------------------------------------
\* Text helpers
\* ------------------------------------------------------------------------

\* String.prototype.replace(/c/g, to) for a single-character pattern
ReplaceAll(text, from, to) ==
    [i \in DOMAIN text |-> IF text[i] = from THEN to ELSE text[i]]

\* a plausible slip in the table: the dotted capital I is left alone
sanitizeTextMissingRow(text) ==
    ReplaceAll(ReplaceAll(ReplaceAll(ReplaceAll(ReplaceAll(ReplaceAll(
    ReplaceAll(ReplaceAll(ReplaceAll(ReplaceAll(ReplaceAll(ReplaceAll(
    ReplaceAll(text,
        287, 103), 286, 71),
        252, 117), 220, 85),
        351, 115), 350, 83),
        305, 105),
        246, 111), 214, 79),
        231, 99), 199, 67),
        226, 97), 194, 65)

\* sanitizeText: fourteen global replacements applied in source order
sanitizeText(text) ==
    ReplaceAll(ReplaceAll(ReplaceAll(ReplaceAll(ReplaceAll(ReplaceAll(
    ReplaceAll(ReplaceAll(ReplaceAll(ReplaceAll(ReplaceAll(ReplaceAll(
    ReplaceAll(ReplaceAll(text,
        287, 103), 286, 71),      \* g-breve  -> g, G
        252, 117), 220, 85),      \* u-umlaut -> u, U
        351, 115), 350, 83),      \* s-cedilla -> s, S
        305, 105), 304, 73),      \* dotless i -> i, dotted I -> I
        246, 111), 214, 79),      \* o-umlaut -> o, O
        231, 99), 199, 67),       \* c-cedilla -> c, C
        226, 97), 194, 65)        \* a-circumflex -> a, A

\* the characters matched by \s and removed by String.prototype.trim
IsSpace(c) ==
    c \in {9, 10, 11, 12, 13, 32, 160, 5760, 8232, 8233, 8239, 8287,
           12288, 65279} \cup (8192..8202)

\* the characters matched by [a-zA-Z0-9_]
IsWordChar(c) == c \in (48..57) \cup (65..90) \cup (97..122) \cup {95}

RECURSIVE TrimStart(_)
TrimStart(s) ==
    IF s = << >> THEN << >>
    ELSE IF IsSpace(Head(s)) THEN TrimStart(Tail(s)) ELSE s

RECURSIVE TrimEnd(_)
TrimEnd(s) ==
    IF s = << >> THEN << >>
    ELSE IF IsSpace(s[Len(s)]) THEN TrimEnd(SubSeq(s, 1, Len(s) - 1)) ELSE s

\* String.prototype.trim
Trim(s) == TrimEnd(TrimStart(s))

\* .replace(/\s+/g, '_'): every maximal run of whitespace becomes one '_'
RECURSIVE ReplaceSpaceRuns(_)
ReplaceSpaceRuns(s) ==
    IF s = << >> THEN << >>
    ELSE IF IsSpace(Head(s))
         THEN << 95 >> \o ReplaceSpaceRuns(TrimStart(s))
         ELSE << Head(s) >> \o ReplaceSpaceRuns(Tail(s))

\* .replace(/[^a-zA-Z0-9_]/g, '_')
ReplaceNonWord(s) ==
    [i \in DOMAIN s |-> IF IsWordChar(s[i]) THEN s[i] ELSE 95]

\* the fixed suffix "_GonulluKatilimSertifikasi.pdf"
FileSuffix ==
    << 95, 71, 111, 110, 117, 108, 108, 117, 75, 97, 116, 105, 108, 105,
       109, 83, 101, 114, 116, 105, 102, 105, 107, 97, 115, 105, 46, 112,
       100, 102 >>

\* a plausible slip: the name is not transliterated before the clean-up
safeFileNameNoSanitize(nm) ==
    ReplaceNonWord(ReplaceSpaceRuns(Trim(nm)))

\* safeFileName of generateCertificatePDF
safeFileName(nm) ==
    ReplaceNonWord(ReplaceSpaceRuns(Trim(sanitizeText(nm))))

\* the argument of doc.save
FileName(nm) == safeFileName(nm) \o FileSuffix

\* String.prototype.toLocaleUpperCase('tr-TR') on one code unit
UpperTr(c) ==
    CASE c = 105 -> 304          \* i -> dotted capital I
      [] c = 305 -> 73           \* dotless i -> I
      [] c \in 97..122 /\ c # 105 -> c - 32
      [] c = 287 -> 286
      [] c = 252 -> 220
      [] c = 351 -> 350
      [] c = 246 -> 214
      [] c = 231 -> 199
      [] c = 226 -> 194
      [] OTHER -> c

toLocaleUpperCase(s) == [i \in DOMAIN s |-> UpperTr(s[i])]

\* ------------------------------------------------------------------------
\* Literals of the source
\* ------------------------------------------------------------------------

\* "Bilimsel arastirmalarimiza sundugunuz degerli katkilar icin tesekkur
\* ederiz." (with its diacritics): the fallback of generateImpactMessage
DefaultImpactMessage ==
    << 66, 105, 108, 105, 109, 115, 101, 108, 32, 97, 114, 97, 351, 116,
       305, 114, 109, 97, 108, 97, 114, 305, 109, 305, 122, 97, 32, 115,
       117, 110, 100, 117, 287, 117, 110, 117, 122, 32, 100, 101, 287, 101,
       114, 108, 105, 32, 107, 97, 116, 107, 305, 108, 97, 114, 32, 105,
       231, 105, 110, 32, 116, 101, 351, 101, 107, 107, 252, 114, 32, 101,
       100, 101, 114, 105, 122, 46 >>

\* 'Tipta Profesyonellik Blogu' (with its diacritics)
DefaultInstitution ==
    << 84, 305, 112, 116, 97, 32, 80, 114, 111, 102, 101, 115, 121, 111,
       110, 101, 108, 108, 105, 107, 32, 66, 108, 111, 287, 117 >>

\* 'Bilimsel Arastirmalar ve Uygulamalar' (with its diacritics)
DefaultUnit ==
    << 66, 105, 108, 105, 109, 115, 101, 108, 32, 65, 114, 97, 351, 116,
       305, 114, 109, 97, 108, 97, 114, 32, 118, 101, 32, 85, 121, 103,
       117, 108, 97, 109, 97, 108, 97, 114 >>

\* 'Koordinator' (with its diacritic)
DefaultCoordinatorTitle ==
    << 75, 111, 111, 114, 100, 105, 110, 97, 116, 246, 114 >>

\* 'GONULLU KATILIM SERTIFIKASI' (with its diacritics)
TitleText ==
    << 71, 214, 78, 220, 76, 76, 220, 32, 75, 65, 84, 73, 76, 73, 77, 32,
       83, 69, 82, 84, 304, 70, 304, 75, 65, 83, 73 >>

introRaw ==
    << 66, 117, 32, 115, 101, 114, 116, 105, 102, 105, 107, 97, 44, 32,
       121, 252, 114, 252, 116, 252, 108, 101, 110, 32, 98, 105, 108, 105,
       109, 115, 101, 108, 32, 231, 97, 108, 305, 351, 109, 97, 108, 97,
       114, 97, 32, 103, 246, 110, 252, 108, 108, 252, 32, 107, 97, 116,
       305, 108, 305, 109, 305, 32, 118, 101, 32, 115, 117, 110, 100, 117,
       287, 117, 32, 100, 101, 287, 101, 114, 108, 105, 32, 107, 97, 116,
       107, 305, 108, 97, 114, 32, 110, 101, 100, 101, 110, 105, 121, 108,
       101, 32, 97, 351, 97, 287, 305, 100, 97, 32, 97, 100, 305, 32, 121,
       97, 122, 305, 108, 305, 32, 107, 97, 116, 305, 108, 305, 109, 99,
       305, 121, 97, 32, 116, 97, 107, 100, 105, 109, 32, 101, 100, 105,
       108, 109, 105, 351, 116, 105, 114, 46 >>

\* the sentence drawn when impactMessage is empty after trimming
DefaultImpactText ==
    << 75, 97, 116, 107, 305, 108, 97, 114, 305, 110, 305, 122, 44, 32, 97,
       114, 97, 351, 116, 305, 114, 109, 97, 32, 115, 252, 114, 101, 99,
       105, 109, 105, 122, 105, 110, 32, 110, 105, 116, 101, 108, 105, 287,
       105, 110, 105, 32, 118, 101, 32, 103, 252, 118, 101, 110, 105, 108,
       105, 114, 108, 105, 287, 105, 110, 105, 32, 103, 252, 231, 108, 101,
       110, 100, 105, 114, 109, 105, 351, 116, 105, 114, 46 >>

closingRaw ==
    << 83, 97, 121, 305, 110, 32, 107, 97, 116, 305, 108, 305, 109, 99,
       305, 109, 305, 122, 97, 32, 116, 101, 351, 101, 107, 107, 252, 114,
       32, 101, 100, 101, 114, 44, 32, 97, 107, 97, 100, 101, 109, 105,
       107, 32, 118, 101, 32, 109, 101, 115, 108, 101, 107, 105, 32, 121,
       97, 351, 97, 109, 305, 110, 100, 97, 32, 98, 97, 351, 97, 114, 305,
       108, 97, 114, 305, 110, 305, 110, 32, 100, 101, 118, 97, 109, 305,
       110, 305, 32, 100, 105, 108, 101, 114, 105, 122, 46 >>

\* 'Duzenlenme Tarihi' (with its diacritic)
DateLabelText ==
    << 68, 252, 122, 101, 110, 108, 101, 110, 109, 101, 32, 84, 97, 114,
       105, 104, 105 >>

\* 'Belge No'
CertNoLabelText == << 66, 101, 108, 103, 101, 32, 78, 111 >>

\* ------------------------------------------------------------------------
\* CertificateInput and the text drawn by generateCertificatePDF
\* ------------------------------------------------------------------------

\* an optional field is << >> when absent and << text >> when present
Absent == << >>
Present(text) == << text >>

\* the ?? operator on an optional field
OrDefault(opt, dflt) == IF opt = Absent THEN dflt ELSE opt[1]

\* CertificateData & CertificateExtras
CertificateInput(nm, dt, msg, inst, unit, ctitle, cname, loc, no) ==
    [name |-> nm, date |-> dt, impactMessage |-> msg,
     institution |-> inst, departmentOrUnit |-> unit,
     coordinatorTitle |-> ctitle, coordinatorName |-> cname,
     location |-> loc, certificateNo |-> no]

\* the value of data while no render is in progress
NoData ==
    CertificateInput(<< >>, << >>, << >>, Absent, Absent, Absent, Absent,
                     Absent, Absent)

\* t = (text) => fontLoaded ? text : sanitizeText(text)
t(fontLoaded, text) == IF fontLoaded THEN text ELSE sanitizeText(text)

\* one doc.text call: which element it draws and the text handed to jsPDF
Drawn(el, text) == [element |-> el, text |-> text]

\* the doc.text calls of generateCertificatePDF, in source order
DrawnTexts(d, fontLoaded) ==
    LET institution      == OrDefault(d.institution, DefaultInstitution)
        unit             == OrDefault(d.departmentOrUnit, DefaultUnit)
        coordinatorTitle == OrDefault(d.coordinatorTitle,
                                      DefaultCoordinatorTitle)
        coordinatorName  == OrDefault(d.coordinatorName, << >>)
        location         == OrDefault(d.location, << >>)
        certificateNo    == OrDefault(d.certificateNo, << >>)
        rawName          == toLocaleUpperCase(d.name)
        cleanName        == t(fontLoaded, rawName)
        impactRaw        == Trim(d.impactMessage)
        impactTextBase   == IF Len(impactRaw) > 0 THEN impactRaw
                            ELSE DefaultImpactText
        dateLabel        == t(fontLoaded, DateLabelText)
        locPart          == IF location # << >>
                            THEN t(fontLoaded, location) \o << 44, 32 >>
                            ELSE << >>
    IN  << Drawn("institution", t(fontLoaded, institution)),
           Drawn("unit", t(fontLoaded, unit)),
           Drawn("title", t(fontLoaded, TitleText)),
           Drawn("intro", t(fontLoaded, introRaw)),
           Drawn("name", cleanName),
           Drawn("impact", t(fontLoaded, impactTextBase)),
           Drawn("closing", t(fontLoaded, closingRaw)),
           Drawn("footerDate",
                 locPart \o dateLabel \o << 58, 32 >> \o d.date) >>
        \o (IF certificateNo # << >>
            THEN << Drawn("certificateNo",
                          t(fontLoaded, CertNoLabelText) \o << 58, 32 >>
                              \o certificateNo) >>
            ELSE << >>)
        \o << Drawn("coordinatorTitle", t(fontLoaded, coordinatorTitle)) >>
        \o (IF Trim(coordinatorName) # << >>
            THEN << Drawn("coordinatorName", t(fontLoaded, coordinatorName)) >>
            ELSE << >>)

\* ------------------------------------------------------------------------
\* Name sizing (shrink-to-fit)
\* ------------------------------------------------------------------------

\* let nameFontSize = 40, the floor of `nameFontSize > 20`, and the
\* decrement of `nameFontSize -= 2`
StartFontSize == 40
MinFontSize == 20
FontSizeStep == 2

\* maxNameWidth = pageWidth - 90 on the landscape A4 page (841.89 pt wide,
\* 90 mm = 255.118 pt), in thousandths of a point, rounded down
MaxNameWidth == 586771

\* advance width of one character of the bold face in use, in thousandths
\* of the font size: the built-in Times bold when the fonts failed to
\* load, Roboto Medium otherwise
CharWidth(c, loaded) ==
    IF loaded
    THEN CASE c = 32 -> 249
           [] c = 73 -> 280
           [] c = 77 -> 876
           [] OTHER -> 600
    ELSE CASE c = 32 -> 250
           [] c = 73 -> 389
           [] c = 77 -> 944
           [] c = 65 -> 722
           [] OTHER -> 667

RECURSIVE UnitWidth(_, _)
UnitWidth(text, loaded) ==
    IF text = << >> THEN 0
    ELSE CharWidth(Head(text), loaded) + UnitWidth(Tail(text), loaded)

\* doc.getTextWidth(text) at the current font size, in thousandths of a
\* point: the width is proportional to the font size
getTextWidth(text, size, loaded) == UnitWidth(text, loaded) * size

\* const cleanName = t(data.name.toLocaleUpperCase('tr-TR'))
cleanName(d, loaded) == t(loaded, toLocaleUpperCase(d.name))

\* a plausible slip: the floor is tested with >= and the loop takes one
\* step too many
ShrinkToFitFloorInclusive(text, size, loaded) ==
    LET RECURSIVE Loop(_)
        Loop(sz) ==
            IF getTextWidth(text, sz, loaded) > MaxNameWidth
                   /\ sz >= MinFontSize
            THEN Loop(sz - FontSizeStep)
            ELSE sz
    IN  Loop(size)

\* while (doc.getTextWidth(cleanName) > maxNameWidth && nameFontSize > 20)
\*   { nameFontSize -= 2; doc.setFontSize(nameFontSize); }
ShrinkToFit(text, size, loaded) ==
    LET RECURSIVE Loop(_)
        Loop(sz) ==
            IF getTextWidth(text, sz, loaded) > MaxNameWidth
                   /\ sz > MinFontSize
            THEN Loop(sz - FontSizeStep)
            ELSE sz
    IN  Loop(size)

\* the size the name is drawn at
ResolveNameFontSize(text, loaded) == ShrinkToFit(text, StartFontSize, loaded)

\* ------------------------------------------------------------------------
\* State
\* ------------------------------------------------------------------------

VARIABLES
    name,        \* App state: the form field
    ip,          \* App state: the looked-up address, Null until it arrives
    count,       \* App state: the in-memory issuance counter
    loading,     \* App state
    error,       \* App state: "none" (null) or the message shown
    isSuccess,   \* App state
    lookup,      \* fetchIpAndCheckLimit of this page load: "pending" | "done"
    timers,      \* setTimeout(() => setIsSuccess(false), 5000) calls pending
    storage,     \* localStorage: storage key -> UserStats, absent keys omitted
    pc,          \* position of the running handleGenerate / render call
    closure,     \* name, count and ip as captured by the running handler
    data,        \* argument of the running generateCertificatePDF call
    fontStep,    \* fetchFirstAvailable position: weight and mirror index
    contacted,   \* font mirrors fetched by this render, in order, with outcome
    registered,  \* fonts added to the document by loadCustomFonts
    fontLoaded,  \* result of loadCustomFonts
    drawn,       \* doc.text calls of this render
    savedAs,     \* doc.save calls of this render (file names)
    nameFontSize, \* font size the name was drawn at, 0 before the layout
    now,         \* logical clock: handleGenerate invocations so far
    deliveredTo, \* history: documents delivered per storage key
    gen,         \* history: what the last generateImpactMessage call did
    result       \* history: how the last handleGenerate call that passed the
                 \* gate ended

appVars    == << name, ip, count, loading, error, isSuccess >>
renderVars == << data, fontStep, contacted, registered, fontLoaded, drawn,
                 savedAs, nameFontSize >>
vars == << name, ip, count, loading, error, isSuccess, lookup, timers,
           storage, pc, closure, data, fontStep, contacted, registered,
           fontLoaded, drawn, savedAs, nameFontSize, now, deliveredTo, gen,
           result >>

\* ------------------------------------------------------------------------
\* Constants of the program and inputs of the model
\* ------------------------------------------------------------------------

\* the literal 2 of `count >= 2` and `Math.max(0, 2 - count)`
IssuanceCap == 2

\* ip === null
Null == "null"

\* addresses the lookup service may report for this client
Addresses == {"203.0.113.7", "198.51.100.9"}

\* `cert_stats_${ip}` and 'cert_stats_generic'
GenericKey == << "cert_stats_", "generic" >>
AddressKey(a) == << "cert_stats_", a >>
StorageKeys == {GenericKey} \cup {AddressKey(a) : a \in Addresses}

\* const storageKey = ip ? `cert_stats_${ip}` : 'cert_stats_generic'
storageKey(a) == IF a # Null THEN AddressKey(a) ELSE GenericKey

\* localStorage.getItem(k) !== null
HasItem(k) == k \in DOMAIN storage

\* localStorage.setItem(k, JSON.stringify(stats))
SetItem(k, stats) ==
    [x \in DOMAIN storage \cup {k} |-> IF x = k THEN stats ELSE storage[x]]

\* the count persisted under a key of a given store, 0 when there is no record
StoredCountIn(st, k) == IF k \in DOMAIN st THEN st[k].count ELSE 0
StoredCount(k) == StoredCountIn(storage, k)

\* names the user types: empty, blank, and " As." with s-cedilla
TypedNames == { << >>, << 32 >>, << 32, 65, 351, 46 >> }

\* response.text of the text-generation service: undefined (absent), blank,
\* or a sentence with surrounding whitespace (" Tesekkurler " with diacritics)
ResponseTexts ==
    { Absent, Present(<< 32 >>),
      Present(<< 32, 84, 101, 351, 101, 107, 107, 252, 114, 108, 101, 114,
                 32 >>) }

\* new Date().toLocaleDateString('tr-TR'): "01.01.2025"
DateTr == << 48, 49, 46, 48, 49, 46, 50, 48, 50, 53 >>

\* the mirrors of each weight, in list order
Weights == << "regular", "bold" >>
NumMirrors == 2

NoGen == [outcome |-> "none", rejected |-> FALSE, returned |-> << >>]
NoClosure == [name |-> << >>, count |-> 0, ip |-> Null]
NoFontStep == [weight |-> 0, mirror |-> 0]

\* ------------------------------------------------------------------------
\* Derived values of the App render
\* ------------------------------------------------------------------------

\* const limitReached = count >= 2
limitReached == count >= IssuanceCap

\* {Math.max(0, 2 - count)}
Remaining(c) == IF IssuanceCap - c > 0 THEN IssuanceCap - c ELSE 0

\* which panel the main card shows
Panel == IF limitReached THEN "limitReached" ELSE "form"

\* ------------------------------------------------------------------------
\* App: page load and address lookup
\* ------------------------------------------------------------------------

\* first visit: the component is mounted, the lookup has not answered yet,
\* nothing is persisted
Init ==
    /\ name = << >>
    /\ ip = Null
    /\ count = 0
    /\ loading = FALSE
    /\ error = "none"
    /\ isSuccess = FALSE
    /\ lookup = "pending"
    /\ timers = 0
    /\ pc = "idle"
    /\ closure = NoClosure
    /\ data = NoData
    /\ fontStep = NoFontStep
    /\ contacted = << >>
    /\ registered = {}
    /\ fontLoaded = FALSE
    /\ drawn = << >>
    /\ savedAs = << >>
    /\ nameFontSize = 0
    /\ gen = NoGen
    /\ result = "none"
    /\ storage = << >>
    /\ now = 0
    /\ deliveredTo = [k \in StorageKeys |-> 0]

\* the page is loaded again: component state is rebuilt, a running handler of
\* the old page is gone, localStorage survives
PageLoad ==
    /\ name' = << >>
    /\ ip' = Null
    /\ count' = 0
    /\ loading' = FALSE
    /\ error' = "none"
    /\ isSuccess' = FALSE
    /\ lookup' = "pending"
    /\ timers' = 0
    /\ pc' = "idle"
    /\ closure' = NoClosure
    /\ data' = NoData
    /\ fontStep' = NoFontStep
    /\ contacted' = << >>
    /\ registered' = {}
    /\ fontLoaded' = FALSE
    /\ drawn' = << >>
    /\ savedAs' = << >>
    /\ nameFontSize' = 0
    /\ gen' = NoGen
    /\ result' = "none"
    /\ UNCHANGED << storage, now, deliveredTo >>

\* if (stored) { setCount(stats.count) }
CountAfterLookup(k) == IF HasItem(k) THEN storage[k].count ELSE count

\* fetchIpAndCheckLimit, try branch: the lookup answers with an address
LookupSucceeds(a) ==
    /\ lookup = "pending"
    /\ lookup' = "done"
    /\ ip' = a
    /\ count' = CountAfterLookup(AddressKey(a))
    /\ UNCHANGED << name, loading, error, isSuccess, timers, storage, pc,
                    closure, now, deliveredTo, gen, result >>
    /\ UNCHANGED renderVars

\* fetchIpAndCheckLimit, catch branch: fetch or res.json() failed
LookupFails ==
    /\ lookup = "pending"
    /\ lookup' = "done"
    /\ count' = CountAfterLookup(GenericKey)
    /\ UNCHANGED << name, ip, loading, error, isSuccess, timers, storage, pc,
                    closure, now, deliveredTo, gen, result >>
    /\ UNCHANGED renderVars

\* onChange of the name input; the input exists only in the form panel and
\* is disabled while loading
SetName(n) ==
    /\ pc = "idle"
    /\ ~limitReached
    /\ n # name
    /\ name' = n
    /\ UNCHANGED << ip, count, loading, error, isSuccess, lookup, timers,
                    storage, pc, closure, now, deliveredTo, gen, result >>
    /\ UNCHANGED renderVars

\* the timer armed after a success fires
SuccessTimeout ==
    /\ timers > 0
    /\ timers' = timers - 1
    /\ isSuccess' = FALSE
    /\ UNCHANGED << name, ip, count, loading, error, lookup, storage, pc,
                    closure, now, deliveredTo, gen, result >>
    /\ UNCHANGED renderVars

\* ------------------------------------------------------------------------
\* handleGenerate
\* ------------------------------------------------------------------------

\* a plausible slip: off-by-one in the cap comparison
GateBlocksOffByOne(c) == c > IssuanceCap

\* if (count >= 2) { setError(...); return; }
GateBlocks(c) == c >= IssuanceCap

\* a plausible slip: setLoading(true) and setError(null) are moved above the
\* two early returns
HandleGenerateLoadingFirst ==
    /\ pc = "idle"
    /\ now < MaxAttempts
    /\ now' = now + 1
    /\ loading' = TRUE
    /\ IF Trim(name) = << >>
       THEN /\ error' = "none"
            /\ UNCHANGED << pc, closure, gen, result >>
       ELSE IF GateBlocks(count)
       THEN /\ error' = "limit"
            /\ UNCHANGED << pc, closure, gen, result >>
       ELSE /\ error' = "none"
            /\ pc' = "impact"
            /\ closure' = [name |-> name, count |-> count, ip |-> ip]
            /\ gen' = NoGen
            /\ result' = "none"
    /\ UNCHANGED << name, ip, count, isSuccess, lookup, timers, storage,
                    deliveredTo >>
    /\ UNCHANGED renderVars

\* handleGenerate up to its first await.  The handler is taken at its own
\* boundary: it is called in every render state with no call in progress
\* (the submit button and the input are disabled while loading), and its
\* two early returns decide whether the call goes on.
HandleGenerate ==
    /\ pc = "idle"
    /\ now < MaxAttempts
    /\ now' = now + 1
    /\ IF Trim(name) = << >>
       THEN UNCHANGED << loading, error, pc, closure, gen, result >>
       ELSE IF GateBlocks(count)
       THEN /\ error' = "limit"
            /\ UNCHANGED << loading, pc, closure, gen, result >>
       ELSE /\ loading' = TRUE
            /\ error' = "none"
            /\ pc' = "impact"
            /\ closure' = [name |-> name, count |-> count, ip |-> ip]
            /\ gen' = NoGen
            /\ result' = "none"
    /\ UNCHANGED << name, ip, count, isSuccess, lookup, timers, storage,
                    deliveredTo >>
    /\ UNCHANGED renderVars

\* catch + finally of handleGenerate
HandlerCatch(cause) ==
    /\ error' = "pdf"
    /\ loading' = FALSE
    /\ pc' = "idle"
    /\ closure' = NoClosure
    /\ result' = cause
    /\ UNCHANGED << name, ip, count, isSuccess, lookup, timers, storage,
                    now, deliveredTo >>

\* what the service call can do: the client constructor throws, the request
\* throws, or a response arrives
GenOutcomes == {"ctorThrows", "apiThrows", "response"}

\* response.text?.trim() || default
TextOrDefault(resp) ==
    IF resp = Absent \/ Trim(resp[1]) = << >>
    THEN DefaultImpactMessage
    ELSE Trim(resp[1])

\* generateImpactMessage: the constructor call is outside the try block, the
\* request and the use of the response are inside it
generateImpactMessage(outcome, resp) ==
    CASE outcome = "ctorThrows" ->
            [outcome |-> outcome, rejected |-> TRUE, returned |-> << >>]
      [] outcome = "apiThrows" ->
            [outcome |-> outcome, rejected |-> FALSE,
             returned |-> DefaultImpactMessage]
      [] OTHER ->
            [outcome |-> IF resp = Absent \/ Trim(resp[1]) = << >>
                         THEN "emptyResponse" ELSE "text",
             rejected |-> FALSE, returned |-> TextOrDefault(resp)]

\* the await of generateImpactMessage settles; on a value the handler goes on
\* to call generateCertificatePDF, which runs up to its first font fetch
ImpactSettles(outcome, resp) ==
    /\ pc = "impact"
    /\ LET g == generateImpactMessage(outcome, resp)
       IN  /\ gen' = g
           /\ IF g.rejected
              THEN /\ HandlerCatch("failedImpact")
                   /\ UNCHANGED renderVars
              ELSE /\ pc' = "fonts"
                   /\ data' = CertificateInput(closure.name, DateTr,
                                 g.returned, Absent, Absent, Absent, Absent,
                                 Absent, Absent)
                   /\ fontStep' = [weight |-> 1, mirror |-> 1]
                   /\ contacted' = << >>
                   /\ registered' = {}
                   /\ fontLoaded' = FALSE
                   /\ drawn' = << >>
                   /\ savedAs' = << >>
                   /\ nameFontSize' = 0
                   /\ UNCHANGED << name, ip, count, loading, error,
                                   isSuccess, lookup, timers, storage,
                                   closure, now, deliveredTo, result >>

\* ------------------------------------------------------------------------
\* Font provisioning: fetchFirstAvailable and loadCustomFonts
\* ------------------------------------------------------------------------

\* a plausible slip: a failed mirror ends the loop instead of moving on
AfterFetchNoFallback(step, ok) ==
    IF ok
    THEN IF step.weight < Len(Weights)
         THEN [next |-> "fetch",
               step |-> [weight |-> step.weight + 1, mirror |-> 1]]
         ELSE [next |-> "loaded", step |-> NoFontStep]
    ELSE [next |-> "failed", step |-> NoFontStep]

\* what follows one fetch: a success returns from fetchFirstAvailable (the
\* next weight is fetched, or both are there and the fonts are registered);
\* a failure moves to the next mirror, or throws after the last one, which
\* loadCustomFonts catches
AfterFetch(step, ok) ==
    IF ok
    THEN IF step.weight < Len(Weights)
         THEN [next |-> "fetch",
               step |-> [weight |-> step.weight + 1, mirror |-> 1]]
         ELSE [next |-> "loaded", step |-> NoFontStep]
    ELSE IF step.mirror < NumMirrors
         THEN [next |-> "fetch",
               step |-> [weight |-> step.weight, mirror |-> step.mirror + 1]]
         ELSE [next |-> "failed", step |-> NoFontStep]

\* doc.addFont calls of a successful loadCustomFonts
RobotoFonts == { << "Roboto", "normal" >>, << "Roboto", "bold" >> }

\* one fetch of fetchFirstAvailable settles: ok is res.ok with a readable
\* body, ~ok a non-success status or a rejected fetch
FontFetch(ok) ==
    /\ pc = "fonts"
    /\ contacted' = Append(contacted,
                           [weight |-> Weights[fontStep.weight],
                            mirror |-> fontStep.mirror, ok |-> ok])
    /\ LET a == AfterFetch(fontStep, ok)
       IN  /\ fontStep' = a.step
           /\ pc' = IF a.next = "fetch" THEN "fonts" ELSE "layout"
           /\ fontLoaded' = (a.next = "loaded")
           /\ registered' = IF a.next = "loaded" THEN RobotoFonts ELSE {}
    /\ UNCHANGED << data, drawn, savedAs, nameFontSize >>
    /\ UNCHANGED << name, ip, count, loading, error, isSuccess, lookup,
                    timers, storage, closure, now, deliveredTo, gen, result >>

\* ------------------------------------------------------------------------
\* generateCertificatePDF after font provisioning, and the rest of
\* handleGenerate
\* ------------------------------------------------------------------------

\* the layout runs to the end: every text is drawn and the document saved
LayoutAndSave ==
    /\ drawn' = DrawnTexts(data, fontLoaded)
    /\ nameFontSize' = ResolveNameFontSize(cleanName(data, fontLoaded),
                                           fontLoaded)
    /\ savedAs' = Append(savedAs, FileName(data.name))
    /\ UNCHANGED << data, fontStep, contacted, registered, fontLoaded >>

\* const newCount = count + 1, with the count the handler captured
NewCount(c) == c + 1

\* generateCertificatePDF resolves; handleGenerate records the issuance
CertificateDelivered ==
    /\ pc = "layout"
    /\ LayoutAndSave
    /\ LET newCount == NewCount(closure.count)
           key      == storageKey(closure.ip)
       IN  /\ count' = newCount
           /\ storage' = SetItem(key, [count |-> newCount,
                                       lastGenerated |-> now])
           /\ deliveredTo' = [deliveredTo EXCEPT ![key] = @ + 1]
    /\ isSuccess' = TRUE
    /\ name' = << >>
    /\ timers' = timers + 1
    /\ loading' = FALSE
    /\ pc' = "idle"
    /\ closure' = NoClosure
    /\ result' = "delivered"
    /\ UNCHANGED << ip, error, lookup, now, gen >>

\* a jsPDF call of the layout or doc.save throws: nothing is delivered and
\* handleGenerate reports the error
CertificateThrows ==
    /\ pc = "layout"
    /\ HandlerCatch("failedRender")
    /\ UNCHANGED gen
    /\ UNCHANGED renderVars

Next ==
    \/ PageLoad
    \/ \E a \in Addresses : LookupSucceeds(a)
    \/ LookupFails
    \/ \E n \in TypedNames : SetName(n)
    \/ SuccessTimeout
    \/ HandleGenerate
    \/ \E o \in GenOutcomes, r \in ResponseTexts : ImpactSettles(o, r)
    \/ \E ok \in BOOLEAN : FontFetch(ok)
    \/ CertificateDelivered
    \/ CertificateThrows

Spec == Init /\ [][Next]_vars

\* ------------------------------------------------------------------------
\* The renderer on its own: generateCertificatePDF called with any input
\* ------------------------------------------------------------------------

\* the fourteen letters sanitizeText is about
Diacritics ==
    {287, 286, 252, 220, 351, 350, 305, 304, 246, 214, 231, 199, 226, 194}

\* characters of the exhaustively enumerated names: the fourteen letters,
\* space, tab, '.', 'a', 'i', 'Z', '9', '_' and e-acute
Alphabet == Diacritics \cup {32, 9, 46, 97, 105, 90, 57, 95, 233}

TextsUpTo(n) == UNION { [1..k -> Alphabet] : k \in 0..n }

\* "Ahmet Yilmaz" with dotless i
AhmetYilmaz == << 65, 104, 109, 101, 116, 32, 89, 305, 108, 109, 97, 122 >>

\* "Dr. Ayse" with s-cedilla, and "  a \t b." with a run of white space
SampleNames ==
    { AhmetYilmaz,
      << 68, 114, 46, 32, 65, 121, 351, 101 >>,
      << 32, 32, 97, 32, 9, 32, 98, 46 >> }

\* every name up to MaxLen with the optional fields absent
PlainInputs ==
    { CertificateInput(nm, DateTr, << >>, Absent, Absent, Absent, Absent,
                       Absent, Absent) : nm \in TextsUpTo(MaxLen) }

\* the sample names with every combination of the other fields: a date with
\* a month name ("1 Sub" with S-cedilla), messages, and present extras with
\* and without the fourteen letters
RichInputs ==
    { CertificateInput(nm, dt, msg, inst, unit, ctitle, cname, loc, no) :
        nm \in SampleNames,
        dt \in { DateTr, << 49, 32, 350, 117, 98 >> },
        msg \in { << >>, << 32 >>, << 32, 231, 111, 107, 32 >> },
        inst \in { Absent, Present(<< 214, 68 >>) },
        unit \in { Absent, Present(<< 226 >>) },
        ctitle \in { Absent, Present(<< 287 >>) },
        cname \in { Absent, Present(<< 32 >>), Present(<< 220, 110 >>) },
        loc \in { Absent, Present(<< 304, 122 >>) },
        no \in { Absent, Present(<< >>), Present(<< 199, 45, 49 >>) } }

\* longest run of one letter enumerated as a name
MaxRepeat == 34

\* names made of one letter repeated: a narrow one, a wide one, and one that
\* upper-casing and transliteration change ('I', 'M', s-cedilla)
LongInputs ==
    { CertificateInput([i \in 1..n |-> c], DateTr, << >>, Absent, Absent,
                       Absent, Absent, Absent, Absent) :
        c \in {73, 77, 351}, n \in 1..MaxRepeat }

RenderInputs == PlainInputs \cup RichInputs \cup LongInputs

\* generateCertificatePDF has been called and awaits its first font fetch
InitRender ==
    /\ name = << >>
    /\ ip = Null
    /\ count = 0
    /\ loading = FALSE
    /\ error = "none"
    /\ isSuccess = FALSE
    /\ lookup = "pending"
    /\ timers = 0
    /\ closure = NoClosure
    /\ gen = NoGen
    /\ result = "none"
    /\ storage = << >>
    /\ now = 0
    /\ deliveredTo = [k \in StorageKeys |-> 0]
    /\ pc = "fonts"
    /\ data \in RenderInputs
    /\ fontStep = [weight |-> 1, mirror |-> 1]
    /\ contacted = << >>
    /\ registered = {}
    /\ fontLoaded = FALSE
    /\ drawn = << >>
    /\ savedAs = << >>
    /\ nameFontSize = 0

\* the layout runs to doc.save and the call resolves
RenderSaves ==
    /\ pc = "layout"
    /\ LayoutAndSave
    /\ pc' = "done"
    /\ UNCHANGED << name, ip, count, loading, error, isSuccess, lookup,
                    timers, storage, closure, now, deliveredTo, gen, result >>

\* a jsPDF call throws and the call rejects
RenderThrows ==
    /\ pc = "layout"
    /\ pc' = "threw"
    /\ UNCHANGED << name, ip, count, loading, error, isSuccess, lookup,
                    timers, storage, closure, now, deliveredTo, gen, result >>
    /\ UNCHANGED renderVars

NextRender ==
    \/ \E ok \in BOOLEAN : FontFetch(ok)
    \/ RenderSaves
    \/ RenderThrows

SpecRender == InitRender /\ [][NextRender]_vars

\* ------------------------------------------------------------------------
\* Properties
\* ------------------------------------------------------------------------

InFlight == pc \in {"impact", "fonts", "layout"}

\* the record persisted under a key of a given store
RecordIn(st, k) ==
    IF k \in DOMAIN st THEN st[k] ELSE [count |-> 0, lastGenerated |-> 0]

\* C1: the cap of 2 per client key is enforced: no storage key ever has more
\* than 2 documents delivered under it, and no attempt is in progress (none
\* was let through the gate) while the count persisted under the key of that
\* attempt is 2 or more.
C1_CapEnforced ==
    /\ \A k \in StorageKeys : deliveredTo[k] <= IssuanceCap
    /\ InFlight => StoredCount(storageKey(closure.ip)) < IssuanceCap

\* C2: an attempt that passed the gate and whose render succeeds saves
\* exactly one document and raises both the in-memory count and the count
\* persisted under its key by exactly 1; an attempt that ends in the error
\* branch saves nothing and leaves count and the persisted records unchanged.
C2_CounterStep ==
    [][ /\ (pc = "layout" /\ pc' = "idle" /\ result' = "delivered")
           => /\ Len(savedAs') = 1
              /\ count' = count + 1
              /\ StoredCountIn(storage', storageKey(closure.ip))
                    = StoredCount(storageKey(closure.ip)) + 1
        /\ (InFlight /\ pc' = "idle"
                /\ result' \in {"failedImpact", "failedRender"})
           => /\ savedAs' = savedAs
              /\ count' = count
              /\ storage' = storage ]_vars

\* C3: the persisted record of every key is monotone: whenever the record
\* under a key changes, the step is the end of a successful render and the
\* new count is the previously stored count plus 1.
C3_RecordMonotone ==
    [][ \A k \in StorageKeys :
          RecordIn(storage', k) # RecordIn(storage, k)
          => /\ result' = "delivered" /\ pc = "layout"
             /\ StoredCountIn(storage', k) = StoredCount(k) + 1 ]_vars

\* C4: the remaining-count display is max(0, 2 - count), that is 2, 1, 0, 0
\* for the counts 0, 1, 2, 3; the limit-reached panel replaces the form
\* exactly when count >= 2; and a call of handleGenerate goes on to message
\* generation exactly when the trimmed name is non-empty and count < 2.
C4_GateAndDisplay ==
    /\ [] /\ \A c \in 0..3 : Remaining(c) = << 2, 1, 0, 0 >>[c + 1]
          /\ Remaining(count) = (IF count = 0 THEN 2
                                 ELSE IF count = 1 THEN 1 ELSE 0)
          /\ (Panel = "limitReached") <=> (count >= 2)
          /\ (Panel = "form") <=> (count < 2)
    /\ [][ now' = now + 1
           => ((pc' = "impact") <=> (Trim(name) # << >> /\ count < 2)) ]_vars

\* C4 witness: a call was turned away at the cap with a name typed in, and
\* the panel has replaced the form
C4_Witness ==
    /\ error = "limit"
    /\ count = 2
    /\ Trim(name) # << >>
    /\ Panel = "limitReached"
    /\ Remaining(count) = 0

\* C5: generateImpactMessage never propagates an error: whenever message
\* generation failed (constructing the client, the request, or an empty
\* response) the call returned the fixed default sentence, and the handler
\* did not end in its error branch because of it.
C5_NeverPropagates ==
    gen.outcome \in {"ctorThrows", "apiThrows", "emptyResponse"}
    => /\ ~gen.rejected
       /\ gen.returned = DefaultImpactMessage
       /\ result # "failedImpact"

\* C7: every attempt that passed the gate ends with loading reset and in
\* exactly one of two outcomes, a delivered document with the success flag
\* set or the error message set, and only a failure of the render/delivery
\* step leads to the error outcome.
C7_TwoOutcomes ==
    [][ (InFlight /\ pc' = "idle" /\ result' # "none")
        => /\ loading' = FALSE
           /\ \/ /\ result' = "delivered"
                 /\ Len(savedAs') = 1
                 /\ isSuccess'
                 /\ error' = "none"
              \/ /\ result' = "failedRender"
                 /\ savedAs' = << >>
                 /\ error' = "pdf" ]_vars

\* the entries of the fetch log of one weight that succeeded
Succeeded(w) ==
    \E i \in DOMAIN contacted : contacted[i].weight = w /\ contacted[i].ok

\* every mirror of a weight was fetched and failed
AllMirrorsFailed(w) ==
    \A m \in 1..NumMirrors :
        \E i \in DOMAIN contacted :
            contacted[i] = [weight |-> w, mirror |-> m, ok |-> FALSE]

\* C6: font provisioning is a first-success fallback: the fetches start at
\* the primary mirror of the regular weight; after a failed fetch the next
\* mirror of the same weight is fetched, after a successful one no further
\* mirror of that weight (the primary of the next weight follows); once
\* loadCustomFonts has returned, it returned true and registered both fonts
\* exactly when a mirror succeeded for each weight, and otherwise returned
\* false after every mirror of some weight failed; the render then still
\* saves one document.
C6_FirstSuccessFallback ==
    /\ \A i \in DOMAIN contacted :
          /\ contacted[i].mirror \in 1..NumMirrors
          /\ i = 1 => contacted[i].weight = "regular" /\ contacted[i].mirror = 1
          /\ i > 1 =>
               IF contacted[i - 1].ok
               THEN /\ contacted[i - 1].weight = "regular"
                    /\ contacted[i].weight = "bold"
                    /\ contacted[i].mirror = 1
               ELSE /\ contacted[i].weight = contacted[i - 1].weight
                    /\ contacted[i].mirror = contacted[i - 1].mirror + 1
    /\ pc = "fonts" => ~fontLoaded /\ registered = {}
    /\ pc \in {"layout", "done", "threw"} =>
          /\ fontLoaded <=> (Succeeded("regular") /\ Succeeded("bold"))
          /\ fontLoaded => registered = RobotoFonts
          /\ ~fontLoaded =>
                /\ registered = {}
                /\ AllMirrorsFailed("regular") \/ AllMirrorsFailed("bold")
    /\ pc = "done" => Len(savedAs) = 1

\* C6 witness: the regular weight came from its secondary mirror, both bold
\* mirrors failed, loadCustomFonts returned false and the document was saved
C6_Witness ==
    /\ pc = "done"
    /\ ~fontLoaded
    /\ Len(savedAs) = 1
    /\ contacted =
         << [weight |-> "regular", mirror |-> 1, ok |-> FALSE],
            [weight |-> "regular", mirror |-> 2, ok |-> TRUE],
            [weight |-> "bold", mirror |-> 1, ok |-> FALSE],
            [weight |-> "bold", mirror |-> 2, ok |-> FALSE] >>

HasDiacritic(text) == \E i \in DOMAIN text : text[i] \in Diacritics

\* C8: when the fonts failed to load, no text drawn into the document
\* contains any of the fourteen letters (every piece went through
\* sanitizeText); when they loaded, the name is drawn unmodified.
C8_NoDiacriticDrawn ==
    pc = "done" =>
        IF fontLoaded
        THEN \E i \in DOMAIN drawn :
                /\ drawn[i].element = "name"
                /\ drawn[i].text = toLocaleUpperCase(data.name)
        ELSE \A i \in DOMAIN drawn : ~HasDiacritic(drawn[i].text)

\* the plain equivalent of each of the fourteen letters, same case
PlainOf ==
    (287 :> 103) @@ (286 :> 71) @@ (252 :> 117) @@ (220 :> 85) @@
    (351 :> 115) @@ (350 :> 83) @@ (305 :> 105) @@ (304 :> 73) @@
    (246 :> 111) @@ (214 :> 79) @@ (231 :> 99) @@ (199 :> 67) @@
    (226 :> 97) @@ (194 :> 65)

\* the texts of a request that the render transliterates
RequestTexts == { data.name, toLocaleUpperCase(data.name), data.impactMessage }

\* C9: sanitizeText is a total, idempotent, length-preserving character
\* substitution: for every text x of the request, sanitize(sanitize(x)) =
\* sanitize(x), the output has the length of x and none of the fourteen
\* letters, each of them is replaced by its plain equivalent of the same
\* case, and every other character stays in place.
C9_SanitizeSubstitution ==
    \A x \in RequestTexts :
        LET y == sanitizeText(x)
        IN  /\ sanitizeText(y) = y
            /\ Len(y) = Len(x)
            /\ ~HasDiacritic(y)
            /\ \A i \in DOMAIN x :
                  y[i] = IF x[i] \in Diacritics THEN PlainOf[x[i]] ELSE x[i]

\* C9 witness: a render without fonts drew a name holding both one of the
\* fourteen letters and another character, and the drawn name differs from
\* the upper-cased name
C9_Witness ==
    /\ pc = "done"
    /\ ~fontLoaded
    /\ HasDiacritic(data.name)
    /\ \E i \in DOMAIN data.name : data.name[i] \notin Diacritics
    /\ \E i \in DOMAIN drawn :
          /\ drawn[i].element = "name"
          /\ drawn[i].text # toLocaleUpperCase(data.name)
          /\ drawn[i].text = sanitizeText(toLocaleUpperCase(data.name))

\* removal of the characters outside [A-Za-z0-9_]
StripNonWord(s) == SelectSeq(s, IsWordChar)

\* "Ahmet_Yilmaz_GonulluKatilimSertifikasi.pdf"
AhmetYilmazFile ==
    << 65, 104, 109, 101, 116, 95, 89, 105, 108, 109, 97, 122, 95, 71, 111,
       110, 117, 108, 108, 117, 75, 97, 116, 105, 108, 105, 109, 83, 101,
       114, 116, 105, 102, 105, 107, 97, 115, 105, 46, 112, 100, 102 >>

\* C10 as stated: whatever the font outcome, the saved file name is the name
\* transliterated and trimmed, with every run of white space replaced by one
\* underscore and every character outside [A-Za-z0-9_] removed, followed by
\* the fixed suffix.
C10_NonWordStripped ==
    pc = "done" =>
        savedAs = << StripNonWord(ReplaceSpaceRuns(Trim(sanitizeText(
                         data.name)))) \o FileSuffix >>

\* C10 as amended: whatever the font outcome, the saved file name is the name
\* transliterated and trimmed, with every run of white space replaced by one
\* underscore and every character outside [A-Za-z0-9_] replaced by an
\* underscore (one for one, none removed), followed by the fixed suffix; the
\* stem holds only characters of [A-Za-z0-9_], and "Ahmet Yilmaz" (dotless
\* i) gives Ahmet_Yilmaz_GonulluKatilimSertifikasi.pdf.
C10_NonWordReplaced ==
    pc = "done" =>
        LET w == ReplaceSpaceRuns(Trim(sanitizeText(data.name)))
            f == savedAs[1]
        IN  /\ Len(savedAs) = 1
            /\ Len(f) = Len(w) + Len(FileSuffix)
            /\ SubSeq(f, Len(w) + 1, Len(f)) = FileSuffix
            /\ \A i \in 1..Len(w) :
                  /\ IsWordChar(f[i])
                  /\ ~IsSpace(w[i])
                  /\ f[i] = IF IsWordChar(w[i]) THEN w[i] ELSE 95
            /\ data.name = AhmetYilmaz => f = AhmetYilmazFile

\* C10 witness: with the fonts loaded, "Dr. Ayse" (s-cedilla) was saved as
\* Dr__Ayse_GonulluKatilimSertifikasi.pdf
C10_Witness ==
    /\ pc = "done"
    /\ fontLoaded
    /\ data.name = << 68, 114, 46, 32, 65, 121, 351, 101 >>
    /\ savedAs = << << 68, 114, 95, 95, 65, 121, 115, 101 >> \o FileSuffix >>

\* the step sequence 40, 38, ..., 20
FontSizeSteps == { 40 - 2 * k : k \in 0..10 }

\* the drawn name is no wider than the maximum width at a given size
NameFits(sz) ==
    getTextWidth(cleanName(data, fontLoaded), sz, fontLoaded) <= MaxNameWidth

\* C11: shrink-to-fit of the participant name: the resolved font size is a
\* member of the sequence 40, 38, ..., 20; it is 40 when the name fits at
\* 40; when the name is too wide at 40 it is strictly smaller than 40 and is
\* the largest size of the sequence at which the name fits, or the floor 20
\* when it fits at none.
C11_ShrinkToFit ==
    pc = "done" =>
        /\ nameFontSize \in FontSizeSteps
        /\ NameFits(40) => nameFontSize = 40
        /\ ~NameFits(40) =>
              /\ nameFontSize < 40
              /\ IF \E sz \in FontSizeSteps : NameFits(sz)
                 THEN /\ NameFits(nameFontSize)
                      /\ \A sz \in FontSizeSteps :
                            sz > nameFontSize => ~NameFits(sz)
                 ELSE nameFontSize = 20

\* C11 witness: a name too wide at 40 was drawn at 30, the first size of the
\* sequence at which it fits
C11_Witness ==
    /\ pc = "done"
    /\ ~NameFits(40)
    /\ ~NameFits(32)
    /\ NameFits(30)
    /\ nameFontSize = 30

\* C12: a rejected submission has no effect beyond its message: a call of
\* handleGenerate with a non-empty trimmed name and count >= 2 sets the
\* limit message and returns, with no call of the message service, no
\* render or delivery, loading not set, and count and the persisted records
\* unchanged; a call with an empty trimmed name leaves count, the persisted
\* records, loading, error and the success flag unchanged.
C12_RejectedFrame ==
    [][ /\ (now' = now + 1 /\ Trim(name) # << >> /\ count >= 2)
           => /\ error' = "limit"
              /\ pc' = "idle"
              /\ loading' = loading /\ ~loading'
              /\ gen' = gen
              /\ result' = result
              /\ renderVars' = renderVars
              /\ deliveredTo' = deliveredTo
              /\ count' = count
              /\ storage' = storage
        /\ (now' = now + 1 /\ Trim(name) = << >>)
           => /\ pc' = "idle"
              /\ count' = count
              /\ storage' = storage
              /\ loading' = loading
              /\ error' = error
              /\ isSuccess' = isSuccess
              /\ gen' = gen
              /\ renderVars' = renderVars
              /\ deliveredTo' = deliveredTo ]_vars

\* C12 witness: on a freshly loaded page whose lookup found two issuances, a
\* call with a name typed in was turned away: the message is shown, nothing
\* is loading, and neither the message service nor the renderer has run
C12_Witness ==
    /\ error = "limit"
    /\ pc = "idle"
    /\ ~loading
    /\ gen = NoGen
    /\ result = "none"
    /\ data = NoData
    /\ savedAs = << >>
    /\ count = 2
    /\ \E k \in StorageKeys : StoredCount(k) = 2

====
